---- MODULE Spec2Model ----
(***************************************************************************)
(* Model of server.py: the Flask service that forwards a microscope image  *)
(* to Gemini and gates the verdict on a confidence threshold (/analyze),   *)
(* plus the two advisory text endpoints (/get_pollen_info and              *)
(* /get_action_plan).                                                      *)
(*                                                                         *)
(* Confidences are integers in thousandths (950 is 0.95).  Labels are      *)
(* sequences of characters so that Python's substring test                 *)
(* `"Hata" in pollen_type` is computed, not assumed.                       *)
(*                                                                         *)
(* Handlers share no mutable state (the only global, `client`, is written  *)
(* once at import time), so one request at a time is modelled; `served`    *)
(* counts the requests the process has accepted so far.                    *)
(***************************************************************************)
EXTENDS Integers, Sequences, FiniteSets, TLC

VARIABLES
    apiKey,     \* GEMINI_API_KEY is set in the environment
    client,     \* the module-level `client` is not None
    pc,         \* position of the current request's handler
    request,    \* the request being handled
    reply,      \* what client.models.generate_content returned or raised
    response,   \* the HTTP response of the current request
    calls,      \* outbound generate_content calls made by the current request
    stages,     \* pipeline stages the current request went through, in order
    served      \* requests accepted since the process started

vars == <<apiKey, client, pc, request, reply, response, calls, stages, served>>

\* Number of requests the process accepts in one run of the model.
MaxRequests == 2

(***************************************************************************)
(* Numbers                                                                 *)
(***************************************************************************)

\* `confidence < 0.90`
Threshold == 900
\* random.uniform(0.70, 0.89)
BandLow == 700
BandHigh == 890

\* Thousandths k/1000 in [0, 1) ending in 5 whose nearest double lies above the
\* decimal tie, so that Python's round(k/1000, 2) goes up (round(0.895, 2) = 0.9,
\* round(0.955, 2) = 0.95).
HalfUp ==
    {   5,  25,  35,  55,  65,  85,  95, 115, 135, 165, 195, 225, 255, 265, 275,
      315, 325, 335, 375, 385, 395, 405, 445, 455, 465, 505, 515, 525, 535, 545,
      555, 635, 645, 655, 665, 675, 685, 755, 765, 775, 785, 795, 805, 875, 885,
      895, 905, 915, 925, 935 }

\* round(x, 2), on thousandths; the result is a multiple of 10.
Round2(c) ==
    LET q == c \div 10
        r == c % 10
    IN  IF r < 5 THEN 10 * q
        ELSE IF r > 5 THEN 10 * (q + 1)
        ELSE IF c \in HalfUp THEN 10 * (q + 1) ELSE 10 * q

\* The confidences the external model is made to return.
RawConfidences ==
    { -500, 0, 500, 894, 895, 899, 900, 904, 950, 955, 1000, 1500 }

\* The values random.uniform(0.70, 0.89) is made to return.
Draws == BandLow .. BandHigh

(***************************************************************************)
(* Strings                                                                 *)
(***************************************************************************)

Hata == <<"H", "a", "t", "a">>
Yok  == <<"Y", "o", "k">>
\* Labels the external model is made to return for pollen_type.
Labels ==
    { Yok,
      <<"C", "a", "m">>,
      Hata,
      <<"H", "a", "t", "a", "y">>,
      <<"h", "a", "t", "a">> }

\* needle in s, for Python strings
Contains(needle, s) ==
    \E i \in 1 .. (Len(s) - Len(needle) + 1) :
        SubSeq(s, i, i + Len(needle) - 1) = needle

(***************************************************************************)
(* Requests, model replies, responses                                      *)
(***************************************************************************)

ImageJpeg == <<"image", "jpeg">>
TextPlain == <<"text", "plain">>

NoRequest ==
    [endpoint |-> "none", file |-> "missing", size |-> 0, mimetype |-> <<>>,
     body |-> "none", pollen_type |-> "absent"]

\* POST /analyze: the multipart part `file` is missing, has an empty filename
\* or is present; its content has `size` bytes and a declared media type.
AnalyzeRequests ==
    { [endpoint |-> "analyze", file |-> f, size |-> n, mimetype |-> m,
       body |-> "none", pollen_type |-> "absent"] :
        f \in {"missing", "noname", "present"}, n \in {0, 1},
        m \in {ImageJpeg, TextPlain} }

\* POST /get_pollen_info and /get_action_plan: request.json is a JSON object
\* (with pollen_type absent, "" or a label), a JSON array or JSON null.
TextRequests(e) ==
    { [endpoint |-> e, file |-> "missing", size |-> 0, mimetype |-> <<>>,
       body |-> "object", pollen_type |-> t] :
        t \in {"absent", "empty", "present"} }
    \cup
    { [endpoint |-> e, file |-> "missing", size |-> 0, mimetype |-> <<>>,
       body |-> b, pollen_type |-> "absent"] : b \in {"array", "null"} }

\* response.text of the image call.  shape: "none" (text is None), "empty",
\* "invalid" (not JSON), "array" (JSON, not an object) or "object".
Field(t, v) == [t |-> t, v |-> v]

NonObjectPayloads ==
    { [shape |-> sh, is_pollen |-> Field("absent", FALSE),
       confidence |-> Field("absent", 0), pollen_type |-> Field("absent", <<>>)] :
        sh \in {"none", "empty", "invalid", "array"} }

ObjectPayloads ==
    { [shape |-> "object", is_pollen |-> ip, confidence |-> cf, pollen_type |-> pt] :
        ip \in {Field("absent", FALSE), Field("bool", TRUE), Field("bool", FALSE)},
        cf \in {Field("absent", 0), Field("string", 0)}
               \cup {Field("number", c) : c \in RawConfidences},
        pt \in {Field("absent", <<>>), Field("null", <<>>)}
               \cup {Field("string", l) : l \in Labels} }

Payloads == NonObjectPayloads \cup ObjectPayloads

NoPayload == CHOOSE p \in NonObjectPayloads : p.shape = "none"

NoReply == [outcome |-> "pending", payload |-> NoPayload]

\* generate_content raises APIError, raises another exception (transport), or
\* returns a response with a text.
ImageReplies ==
    { [outcome |-> o, payload |-> NoPayload] : o \in {"APIError", "Exception"} }
    \cup { [outcome |-> "text", payload |-> p] : p \in Payloads }

TextReplies ==
    { [outcome |-> o, payload |-> NoPayload] : o \in {"APIError", "Exception", "text"} }

Resp(status, json, keys, error, is_pollen, confidence, pollen_type) ==
    [status |-> status, json |-> json, keys |-> keys, error |-> error,
     is_pollen |-> is_pollen, confidence |-> confidence, pollen_type |-> pollen_type]

NoResponse == Resp(0, FALSE, {}, "", FALSE, 0, <<>>)

\* jsonify({'error': ...}), status
ErrorResponse(status, error) ==
    Resp(status, TRUE, {"error"}, error, FALSE, 0, <<>>)

\* An exception left the view function: Flask answers 500 with its own
\* (HTML) error page, there is no JSON body and no error field.
UnhandledResponse == Resp(500, FALSE, {}, "", FALSE, 0, <<>>)

(***************************************************************************)
(* analyze_with_gemini                                                     *)
(***************************************************************************)

\* The 4-tuple analyze_with_gemini returns.
Result(message, is_pollen, confidence, pollen_type) ==
    [message |-> message, is_pollen |-> is_pollen, confidence |-> confidence,
     pollen_type |-> pollen_type]

\* return "<message>", False, 0.0, "Hata"
ErrorResult(message) == Result(message, FALSE, 0, Field("string", Hata))

\* The gate with `and` in place of `or`: a low confidence alone is let through.
BelowGateAnd(is_pollen, confidence) == confidence < Threshold /\ ~is_pollen

\* `if confidence < 0.90 or not is_pollen`
BelowGate(is_pollen, confidence) == confidence < Threshold \/ ~is_pollen

\* round(random.uniform(0.70, 0.89), 2) for the draw u
Resample(u) == Round2(u)

\* The confidence gate applied to the parsed fields; u is the random draw.
ConfidenceGate(is_pollen, confidence, pollen_type, u) ==
    IF BelowGate(is_pollen, confidence)
    THEN Result("BelowThreshold", FALSE, Resample(u), Field("string", Yok))
    ELSE Result("Detected", is_pollen, confidence, pollen_type)

\* json_data.get('is_pollen', False)
GetIsPollen(p) == IF p.is_pollen.t = "absent" THEN FALSE ELSE p.is_pollen.v
\* json_data.get('confidence', 0.0)
GetConfidence(p) == IF p.confidence.t = "absent" THEN 0 ELSE p.confidence.v
\* json_data.get('pollen_type', 'Yok')
GetPollenType(p) ==
    IF p.pollen_type.t = "absent" THEN Field("string", Yok) ELSE p.pollen_type

\* The body of the try block after the call returned text p, and the except
\* clauses that catch what it raises.
ParseAndGate(p, u) ==
    IF p.shape = "none" THEN ErrorResult("UnknownError")              \* json.loads(None): TypeError
    ELSE IF p.shape \in {"empty", "invalid"} THEN ErrorResult("JSONDecodeError")
    ELSE IF p.shape = "array" THEN ErrorResult("UnknownError")        \* list has no .get
    ELSE IF p.confidence.t = "string" THEN ErrorResult("UnknownError") \* round(str, 2): TypeError
    ELSE ConfidenceGate(GetIsPollen(p), Round2(GetConfidence(p)), GetPollenType(p), u)

\* analyze_with_gemini once generate_content has returned or raised.
GeminiResult(r, u) ==
    IF r.outcome = "APIError" THEN ErrorResult("APIError")
    ELSE IF r.outcome = "Exception" THEN ErrorResult("UnknownError")
    ELSE ParseAndGate(r.payload, u)

\* The client check left out: the call is attempted with client = None.
ClientMissingIgnored == FALSE

\* `if not client: return "API İstemcisi başlatılamadı.", False, 0.0, "Hata"`
ClientMissing == ~client

(***************************************************************************)
(* analyze_image                                                           *)
(***************************************************************************)

\* The file checks without the check for an empty content.
ValidateUploadNoEmptyCheck(req) ==
    IF req.file = "missing" \/ req.file = "noname" THEN "NoFile" ELSE "ok"

\* The file checks; "ok" when the handler goes on to the analysis.
ValidateUpload(req) ==
    IF req.file = "missing" \/ req.file = "noname" THEN "NoFile"
    ELSE IF req.size = 0 THEN "EmptyFile"
    ELSE "ok"

\* `"Hata" in message` for the two messages of a returned detection: neither
\* literal holds the word.
HataInMessage(message) == FALSE

\* Steps 4 and 5 of the handler, and its outer except clause.
AnalyzeResponse(res) ==
    IF res.pollen_type.t = "null"
    THEN \* "Hata" in None raises TypeError, caught by `except Exception`
         Resp(500, TRUE, {"error", "detay"}, "Critical", FALSE, 0, <<>>)
    ELSE IF Contains(Hata, res.pollen_type.v) \/ HataInMessage(res.message)
    THEN Resp(500, TRUE, {"error", "is_pollen", "confidence", "pollen_type"},
              res.message, FALSE, 0, Hata)
    ELSE Resp(200, TRUE, {"message", "is_pollen", "confidence", "pollen_type"},
              "", res.is_pollen, res.confidence, res.pollen_type.v)

(***************************************************************************)
(* generate_text_gemini and the two advisory endpoints                     *)
(***************************************************************************)

\* `data = request.json; pollen_type = data.get('pollen_type')` and the check
\* `if not pollen_type`.  "raise": data is not a dict, data.get raises
\* AttributeError and nothing in the view function catches it.
ValidateText(req) ==
    IF req.body # "object" THEN "raise"
    ELSE IF req.pollen_type \in {"absent", "empty"} THEN "NoPollenType"
    ELSE "ok"

\* generate_text_gemini once generate_content has returned or raised: the
\* error of the dictionary it returns, "" when it returns {"text": ...}.
TextResult(r) ==
    IF r.outcome = "APIError" THEN "APIError"
    ELSE IF r.outcome = "Exception" THEN "UnexpectedError"
    ELSE ""

\* `if "error" in gemini_response: return jsonify({"error": ...}), 500`, else
\* the advisory text with the echoed pollen_type.
TextResponse(e, err) ==
    IF err # "" THEN ErrorResponse(500, err)
    ELSE Resp(200, TRUE,
              {IF e = "get_pollen_info" THEN "info" ELSE "plan", "pollen_type"},
              "", FALSE, 0, <<>>)

TextEndpoints == {"get_pollen_info", "get_action_plan"}

(***************************************************************************)
(* The process                                                             *)
(***************************************************************************)

\* client = None; if GEMINI_API_KEY: try: client = genai.Client(...) except: ...
StartClient(key, constructed) == key /\ constructed

Init ==
    /\ apiKey \in BOOLEAN
    /\ \E constructed \in BOOLEAN : client = StartClient(apiKey, constructed)
    /\ pc = "Idle"
    /\ request = NoRequest
    /\ reply = NoReply
    /\ response = NoResponse
    /\ calls = 0
    /\ stages = <<>>
    /\ served = 0

\* The next request is taken once the current one has been answered.
Accepting == pc \in {"Idle", "Done"} /\ served < MaxRequests

\* The request ends with response r.
Finish(r, st) ==
    /\ pc' = "Done"
    /\ response' = r
    /\ stages' = st

\* The request blocks in client.models.generate_content.
CallModel ==
    /\ pc' = "ModelCalled"
    /\ response' = NoResponse
    /\ calls' = 1
    /\ stages' = <<"Received", "Validated", "ModelCalled">>

\* analyze_image up to the outbound call.
ReceiveAnalyze(req) ==
    /\ Accepting
    /\ request' = req
    /\ reply' = NoReply
    /\ served' = served + 1
    /\ LET v == ValidateUpload(req) IN
       IF v # "ok"
       THEN calls' = 0 /\ Finish(ErrorResponse(400, v), <<"Received", "Failed">>)
       ELSE IF ClientMissing
       THEN /\ calls' = 0
            /\ Finish(AnalyzeResponse(ErrorResult("ClientUnavailable")),
                      <<"Received", "Validated", "Failed">>)
       ELSE CallModel
    /\ UNCHANGED <<apiKey, client>>

\* get_pollen_info_endpoint / get_action_plan_endpoint up to the outbound call.
ReceiveText(e, req) ==
    /\ Accepting
    /\ request' = req
    /\ reply' = NoReply
    /\ served' = served + 1
    /\ LET v == ValidateText(req) IN
       IF v = "raise"
       THEN calls' = 0 /\ Finish(UnhandledResponse, <<"Received", "Failed">>)
       ELSE IF v # "ok"
       THEN calls' = 0 /\ Finish(ErrorResponse(400, v), <<"Received", "Failed">>)
       ELSE IF ClientMissing
       THEN /\ calls' = 0
            /\ Finish(ErrorResponse(500, "ClientUnavailable"),
                      <<"Received", "Validated", "Failed">>)
       ELSE CallModel
    /\ UNCHANGED <<apiKey, client>>

\* The external model answers the pending call (or the call raises).
ModelAnswers(r) ==
    /\ pc = "ModelCalled"
    /\ pc' = "Returned"
    /\ reply' = r
    /\ UNCHANGED <<apiKey, client, request, response, calls, stages, served>>

\* The stages after the image call returned: parsing and gating happen only
\* when the call returned a text that parsed.
AnalyzeStages(r, res, resp) ==
    IF r.outcome # "text" \/ res.message \notin {"Detected", "BelowThreshold"}
    THEN <<"Failed">>
    ELSE <<"Parsed", "Gated", IF resp.status = 200 THEN "Succeeded" ELSE "Failed">>

\* The completion with one retry of a call that raised APIError.
CompleteAnalyzeRetry ==
    /\ pc = "Returned"
    /\ request.endpoint = "analyze"
    /\ IF reply.outcome = "APIError" /\ calls < 2
       THEN /\ pc' = "ModelCalled"
            /\ calls' = calls + 1
            /\ stages' = Append(stages, "ModelCalled")
            /\ UNCHANGED response
       ELSE /\ \E u \in Draws :
                 LET res == GeminiResult(reply, u)
                     resp == AnalyzeResponse(res)
                 IN  Finish(resp, stages \o AnalyzeStages(reply, res, resp))
            /\ UNCHANGED calls
    /\ UNCHANGED <<apiKey, client, request, reply, served>>

\* analyze_with_gemini and analyze_image after the outbound call.
CompleteAnalyze ==
    /\ pc = "Returned"
    /\ request.endpoint = "analyze"
    /\ \E u \in Draws :
         LET res == GeminiResult(reply, u)
             resp == AnalyzeResponse(res)
         IN  Finish(resp, stages \o AnalyzeStages(reply, res, resp))
    /\ UNCHANGED <<apiKey, client, request, reply, calls, served>>

\* generate_text_gemini and the advisory endpoint after the outbound call.
CompleteText ==
    /\ pc = "Returned"
    /\ request.endpoint \in TextEndpoints
    /\ LET resp == TextResponse(request.endpoint, TextResult(reply))
       IN  Finish(resp, Append(stages, IF resp.status = 200 THEN "Succeeded" ELSE "Failed"))
    /\ UNCHANGED <<apiKey, client, request, reply, calls, served>>

Next ==
    \/ \E req \in AnalyzeRequests : ReceiveAnalyze(req)
    \/ \E e \in TextEndpoints : \E req \in TextRequests(e) : ReceiveText(e, req)
    \/ /\ request.endpoint = "analyze"
       /\ \E r \in ImageReplies : ModelAnswers(r)
    \/ /\ request.endpoint \in TextEndpoints
       /\ \E r \in TextReplies : ModelAnswers(r)
    \/ CompleteAnalyze
    \/ CompleteText

Spec == Init /\ [][Next]_vars

\* The handler's own steps are scheduled fairly; nothing in the code bounds
\* how long the external model may take, so ModelAnswers is not.
LiveSpec == Spec /\ WF_vars(CompleteAnalyze) /\ WF_vars(CompleteText)

(***************************************************************************)
(* Properties                                                              *)
(***************************************************************************)

Done == pc = "Done"
IsAnalyze == request.endpoint = "analyze"
IsText == request.endpoint \in TextEndpoints
HasError == response.json /\ "error" \in response.keys

\* The declared media type starts with the image family prefix.
IsImageType(m) == Len(m) > 0 /\ m[1] = "image"

\* The request's input is what the endpoint asks for.
UploadOK == IsAnalyze /\ request.file = "present" /\ request.size > 0
PollenTypeOK == IsText /\ request.body = "object" /\ request.pollen_type = "present"
ValidInput == UploadOK \/ PollenTypeOK

\* The input fails one of the checks the claims list.
InvalidUpload == IsAnalyze /\ (request.file \in {"missing", "noname"} \/ request.size = 0)
InvalidPollenType ==
    IsText /\ request.body = "object" /\ request.pollen_type \in {"absent", "empty"}

\* The image call returned a JSON object.
ObjectReply == IsAnalyze /\ reply.outcome = "text" /\ reply.payload.shape = "object"

\* The error kind a response reports, by the message of its error field.
ErrorKind(error) ==
    CASE error \in {"NoFile", "EmptyFile", "NoPollenType"} -> "InvalidInput"
      [] error \in {"ClientUnavailable", "APIError"} -> "ProviderError"
      [] error = "JSONDecodeError" -> "MalformedResponse"
      [] OTHER -> "Unexpected"

Count(seq, x) == Cardinality({i \in 1 .. Len(seq) : seq[i] = x})

\* C1: a JSON object with is_pollen = true, a confidence >= 0.90 and any string
\* as pollen_type is answered 200 with is_pollen = true, that confidence (to
\* two decimals) and that pollen_type.
C1_DetectionSurfaced ==
    ( /\ Done /\ ObjectReply
      /\ reply.payload.is_pollen = Field("bool", TRUE)
      /\ reply.payload.confidence.t = "number"
      /\ reply.payload.confidence.v >= 900
      /\ reply.payload.pollen_type.t = "string" )
    => /\ response.status = 200
       /\ response.is_pollen = TRUE
       /\ response.confidence = Round2(reply.payload.confidence.v)
       /\ response.pollen_type = reply.payload.pollen_type.v

\* What /analyze answers to a rejected detection.
AnsweredNoPollen ==
    /\ response.status = 200
    /\ response.is_pollen = FALSE
    /\ response.pollen_type = Yok
    /\ response.confidence >= 700 /\ response.confidence <= 890

\* C2 as stated: a JSON object whose confidence is below 0.90, or whose
\* is_pollen is false, is answered 200 with is_pollen = false, pollen_type
\* "Yok" and a confidence in [0.70, 0.89].
C2_Original ==
    ( /\ Done /\ ObjectReply
      /\ reply.payload.confidence.t = "number"
      /\ \/ reply.payload.confidence.v < 900
         \/ reply.payload.is_pollen = Field("bool", FALSE) )
    => AnsweredNoPollen

\* C2 amended: a JSON object whose confidence is a number or absent and, once
\* rounded to two decimals, below 0.90, or whose is_pollen is false or absent
\* (with such a confidence), is answered 200 with is_pollen = false,
\* pollen_type "Yok" and a confidence in [0.70, 0.89], whatever the draw.
C2_GatedAfterRounding ==
    ( /\ Done /\ ObjectReply
      /\ reply.payload.confidence.t \in {"number", "absent"}
      /\ \/ Round2(reply.payload.confidence.v) < 900
         \/ reply.payload.is_pollen # Field("bool", TRUE) )
    => AnsweredNoPollen

C2_Witness ==
    /\ Done /\ ObjectReply
    /\ reply.payload.is_pollen = Field("bool", TRUE)
    /\ reply.payload.confidence = Field("number", 500)
    /\ reply.payload.pollen_type = Field("string", <<"C", "a", "m">>)
    /\ response.status = 200
    /\ response.is_pollen = FALSE
    /\ response.pollen_type = Yok
    /\ response.confidence = 890

\* C3: an upload whose declared media type is not an image type is answered
\* 400 with an error field and never reaches the external model.
C3_MediaTypeRejected ==
    (IsAnalyze /\ ~IsImageType(request.mimetype))
    => /\ calls = 0
       /\ pc \notin {"ModelCalled", "Returned"}
       /\ Done => (response.status = 400 /\ HasError)

\* C4: a request that fails an input check is answered 400 with an error
\* field, without a model call and without an is_pollen, whether or not the
\* client is configured.
C4_ValidationFirst ==
    (InvalidUpload \/ InvalidPollenType)
    => /\ Done
       /\ response.status = 400
       /\ HasError
       /\ "is_pollen" \notin response.keys
       /\ calls = 0
       /\ Count(stages, "ModelCalled") = 0

C4_Witness ==
    /\ client
    /\ IsAnalyze /\ request.file = "present" /\ request.size = 0
    /\ Done /\ response.status = 400 /\ response.error = "EmptyFile"

\* C5: without an API key there is no client, and without a client every
\* request with valid input is answered 500 with the client-unavailable error,
\* no model call is made and no request is answered 200.
C5_UnavailableForever ==
    /\ ~apiKey => ~client
    /\ (~client /\ ValidInput)
       => /\ Done
          /\ response.status = 500
          /\ HasError
          /\ ErrorKind(response.error) = "ProviderError"
    /\ ~client => (calls = 0 /\ response.status # 200 /\ pc \in {"Idle", "Done"})

C5_Witness ==
    /\ ~apiKey /\ ~client
    /\ served = 2
    /\ PollenTypeOK /\ request.endpoint = "get_action_plan"
    /\ Done /\ response.status = 500 /\ response.error = "ClientUnavailable"

\* C6: every response that is not a success is JSON with an error field and
\* status 400 or 500.
C6_ErrorsClassified ==
    (Done /\ response.status # 200)
    => (HasError /\ response.status \in {400, 500})

\* C7: whatever text the image call returns, the request ends either with a
\* detection or with the malformed-response error.
C7_ParseTwoOutcomes ==
    (Done /\ IsAnalyze /\ reply.outcome = "text" /\ reply.payload.shape # "none")
    => \/ response.status = 200
       \/ HasError /\ ErrorKind(response.error) = "MalformedResponse"

\* C8: the confidence of every success response of /analyze is in [0, 1].
C8_ConfidenceInRange ==
    (Done /\ IsAnalyze /\ response.status = 200)
    => (response.confidence >= 0 /\ response.confidence <= 1000)

\* C9: a request makes at most one model call, exactly one once it passed
\* validation with a client; a failed call or an unparsable payload ends it as
\* Failed with no second call; parsing and gating come only after the call
\* returned a text; the first terminal stage is the last stage.
C9_OneCallNoRetry ==
    /\ calls <= 1
    /\ Count(stages, "ModelCalled") = calls
    /\ (ValidInput /\ client) => calls = 1
    /\ (Done /\ calls = 1 /\ reply.outcome \in {"APIError", "Exception"})
       => (stages = <<"Received", "Validated", "ModelCalled", "Failed">>
           /\ response.status = 500)
    /\ (Done /\ IsAnalyze /\ reply.outcome = "text"
        /\ reply.payload.shape \in {"empty", "invalid"})
       => stages = <<"Received", "Validated", "ModelCalled", "Failed">>
    /\ \A i \in 1 .. Len(stages) :
         /\ stages[i] \in {"Parsed", "Gated"}
            => (reply.outcome = "text" /\ i > 3 /\ stages[3] = "ModelCalled")
         /\ stages[i] \in {"Failed", "Succeeded"} => (i = Len(stages) /\ Done)

C9_Witness ==
    /\ Done /\ IsAnalyze /\ client
    /\ reply.outcome = "APIError"
    /\ calls = 1
    /\ stages = <<"Received", "Validated", "ModelCalled", "Failed">>

\* C10: every request that reached the model call eventually gets its
\* response, even when the external model never answers.
C10_CallBounded == (pc = "ModelCalled") ~> (pc = "Done")

====
